---- MODULE Spec2Model ----
(***************************************************************************)
(* Model of PDFCompressor (src/compress_pdf.py): the two target-size       *)
(* searches compress_to_target_size (ordered strategy catalog, early stop) *)
(* and compress_with_multiple_attempts_image_only (exhaustive grid), over  *)
(* an explicit file system.                                                *)
(*                                                                         *)
(* Sizes are integers in one fixed unit; get_file_size_mb is a positive    *)
(* scaling of the byte count, so every comparison of the code is kept by   *)
(* comparing the integers, and the percentages (5%, 10%, 2%) are computed  *)
(* exactly by cross-multiplication.                                        *)
(*                                                                         *)
(* The second part models PDFMerger (src/main.py): the merge queue under   *)
(* add_file, clear_files, merge_files and process_folder, specification    *)
(* SpecMerger.                                                             *)
(***************************************************************************)
EXTENDS Integers, Sequences, FiniteSets, TLC

\* Bounds of the model.
Spread  == 3   \* transform results range over target-Spread .. target+Spread
GridLen == 3   \* number of entries of compression_params that are iterated
MaxCalls == 3  \* number of PDFMerger method calls in one behaviour
MaxFolder == 2 \* number of files in the input folder of the PDFMerger

\* float("inf"), the initial best_size of the strategy search.
inf == 1000000

Targets == {20, 21}
InputSizes == {20, 22}

---------------------------------------------------------------------------
\* Paths and the file system

Path(folder, attempt, w, q, suffix) ==
  [folder |-> folder, attempt |-> attempt, w |-> w, q |-> q, suffix |-> suffix]

None == Path("", 0, 0, 0, "")

\* the first PDF of the input folder, as handed to the search
input_path == Path("files_input", 0, 0, 0, ".pdf")

\* self.output_folder / f"compressed_{target_size_mb}MB_{timestamp}.pdf"
output_path == Path("files_output", 0, 0, 0, ".pdf")

\* Path.with_suffix: the last suffix is replaced, the rest of the path kept
with_suffix(p, suffix) == [p EXCEPT !.suffix = suffix]

\* output_path.with_suffix(".tmp.pdf")
temp_output == with_suffix(output_path, ".tmp.pdf")

\* self.output_folder / f"{base_filename}_attempt_{i:02d}_w{max_width}_q{quality}.pdf"
temp_output_path(k, max_width, quality) ==
  Path("files_output", k, max_width, quality, ".pdf")

\* self.output_folder / f"compressed_{target_size_mb}MB_{timestamp}.pdf" (grid mode)
final_output_path == Path("files_output", 0, 0, 0, ".pdf")

File(size, partial) == [size |-> size, partial |-> partial]

exists(fsx, p) == p \in DOMAIN fsx

\* Path.unlink
unlink(fsx, p) == [q \in (DOMAIN fsx) \ {p} |-> fsx[q]]

\* a transform (or a move) leaves a file at p, replacing what was there
write(fsx, p, f) == [q \in (DOMAIN fsx) \cup {p} |-> IF q = p THEN f ELSE fsx[q]]

\* shutil.move(src, dst): dst holds what src held, src is gone
move(fsx, src, dst) == unlink(write(fsx, dst, fsx[src]), src)

\* os.path.getsize(file_path) / (1024 * 1024)
get_file_size_mb(fsx, p) == fsx[p].size

---------------------------------------------------------------------------
\* The transforms

\* What one transform invocation may do: write the whole document (res "ok"),
\* fail before writing anything, or fail leaving a partial file behind (no
\* decision of either search reads the size of a partial file; it is T - 1).
SizesFor(T) == (T - Spread) .. (T + Spread)

Outcomes(T) ==
  [res : {"ok"}, wrote : {TRUE}, size : SizesFor(T)]
    \cup [res : {"fail"}, wrote : {FALSE}, size : {0}]
    \cup [res : {"fail"}, wrote : {TRUE}, size : {T - 1}]

\* the effect of a transform on the file at its output path
Transform(fsx, out, outcome) ==
  IF outcome.wrote
    THEN write(fsx, out, File(outcome.size, outcome.res = "fail"))
    ELSE fsx

\* compress_pdf_basic and compress_pdf_pymupdf raise on failure;
\* compress_pdf_images catches the failure and returns False
Raises(kind, outcome) == kind # "images" /\ outcome.res = "fail"

\* compress_pdf_images: the status it returns
compress_pdf_images_status(outcome) == outcome.res = "ok"

---------------------------------------------------------------------------
\* The catalog of compress_to_target_size, in the order it is tried.  Each
\* best_suffix is '.best_' + strategy_name.replace(" ", "_").lower() + '.pdf'.
strategies == <<
  [name |-> "Basic PDF Optimization", kind |-> "basic", max_width |-> 0, quality |-> 0,
   best_suffix |-> ".best_basic_pdf_optimization.pdf"],
  [name |-> "PyMuPDF Minimal Compression", kind |-> "pymupdf", max_width |-> 0, quality |-> 95,
   best_suffix |-> ".best_pymupdf_minimal_compression.pdf"],
  [name |-> "PyMuPDF Very Light Compression", kind |-> "pymupdf", max_width |-> 0, quality |-> 90,
   best_suffix |-> ".best_pymupdf_very_light_compression.pdf"],
  [name |-> "PyMuPDF Light Compression", kind |-> "pymupdf", max_width |-> 0, quality |-> 85,
   best_suffix |-> ".best_pymupdf_light_compression.pdf"],
  [name |-> "PyMuPDF Low Compression", kind |-> "pymupdf", max_width |-> 0, quality |-> 80,
   best_suffix |-> ".best_pymupdf_low_compression.pdf"],
  [name |-> "Image Conversion Minimal", kind |-> "images", max_width |-> 1600, quality |-> 95,
   best_suffix |-> ".best_image_conversion_minimal.pdf"],
  [name |-> "PyMuPDF Medium-Low Compression", kind |-> "pymupdf", max_width |-> 0, quality |-> 75,
   best_suffix |-> ".best_pymupdf_medium-low_compression.pdf"],
  [name |-> "Image Conversion Light", kind |-> "images", max_width |-> 1400, quality |-> 90,
   best_suffix |-> ".best_image_conversion_light.pdf"],
  [name |-> "PyMuPDF Medium Compression", kind |-> "pymupdf", max_width |-> 0, quality |-> 70,
   best_suffix |-> ".best_pymupdf_medium_compression.pdf"],
  [name |-> "Image Conversion Medium", kind |-> "images", max_width |-> 1200, quality |-> 85,
   best_suffix |-> ".best_image_conversion_medium.pdf"],
  [name |-> "PyMuPDF Medium-High Compression", kind |-> "pymupdf", max_width |-> 0, quality |-> 60,
   best_suffix |-> ".best_pymupdf_medium-high_compression.pdf"],
  [name |-> "PyMuPDF High Compression", kind |-> "pymupdf", max_width |-> 0, quality |-> 50,
   best_suffix |-> ".best_pymupdf_high_compression.pdf"],
  [name |-> "Image Conversion High", kind |-> "images", max_width |-> 1000, quality |-> 80,
   best_suffix |-> ".best_image_conversion_high.pdf"],
  [name |-> "PyMuPDF Very High Compression", kind |-> "pymupdf", max_width |-> 0, quality |-> 40,
   best_suffix |-> ".best_pymupdf_very_high_compression.pdf"],
  [name |-> "PyMuPDF Maximum Compression", kind |-> "pymupdf", max_width |-> 0, quality |-> 30,
   best_suffix |-> ".best_pymupdf_maximum_compression.pdf"]
>>

\* The (max_width, quality) table of compress_with_multiple_attempts_image_only.
compression_params == <<
  <<2000, 100>>, <<2000, 95>>, <<1900, 90>>, <<1800, 85>>, <<1700, 80>>, <<1600, 95>>,
  <<1600, 90>>, <<1600, 85>>, <<1600, 80>>, <<1500, 95>>, <<1500, 90>>, <<1500, 85>>,
  <<1500, 80>>, <<1400, 95>>, <<1400, 90>>, <<1400, 85>>, <<1400, 80>>, <<1300, 85>>,
  <<1300, 80>>, <<1200, 90>>, <<1200, 85>>, <<1200, 80>>, <<1200, 75>>, <<1100, 85>>,
  <<1100, 80>>, <<1000, 90>>, <<1000, 85>>, <<1000, 80>>, <<1000, 75>>, <<900, 85>>,
  <<900, 80>>, <<800, 85>>, <<800, 80>>, <<700, 80>>, <<600, 75>>, <<500, 70>>
>>

\* the entries of compression_params that the model iterates
Grid == SubSeq(compression_params, 1, GridLen)

---------------------------------------------------------------------------
\* The decisions of the two searches

\* a fast path that misses the input of exactly the target size
FastPathStrict(input_size, T) == input_size < T

\* if input_size <= target_size_mb: return input_path
FastPath(input_size, T) == input_size <= T

\* current_size <= target_size_mb and
\* current_size >= (target_size_mb - target_tolerance), target_tolerance = 5% of target
InBand(current_size, T) == current_size <= T /\ 20 * current_size >= 19 * T

\* a retention rule that starts from a best size of 0, as the grid search does
ImprovesFromZero(current_size, best) == current_size < (IF best = inf THEN 0 ELSE best)

\* elif current_size < best_size
Improves(current_size, best) == current_size < best

\* a stop margin of 5% above the target instead of 10%
CloseEnoughFivePercent(current_size, T) == 20 * current_size <= 21 * T

\* if current_size <= target_size_mb * 1.1: break
CloseEnough(current_size, T) == 10 * current_size <= 11 * T

\* if current_size >= (target_size_mb - target_tolerance), target_tolerance = 2% of
\* target: it only prints
VeryClose(current_size, T) == 50 * current_size >= 49 * T

\* a selection that keeps the latest candidate under the target, not the largest
GridBetterLatest(current_size, T, best) == current_size <= T

\* a selection that lets a later candidate of the same size replace the best
GridBetterOrEqual(current_size, T, best) == current_size <= T /\ current_size >= best

\* if current_size <= target_size_mb and current_size > best_size (grid mode)
GridBetter(current_size, T, best) == current_size <= T /\ current_size > best

---------------------------------------------------------------------------
VARIABLES
  pc,              \* "idle", "strategy", "strategy_end", "grid", "grid_end", "done"
  mode,            \* which search was called: "none", "strategy", "grid"
  target_size_mb,  \* the target of the call
  fs,              \* the file system: existing path -> [size, partial]
  i,               \* number of catalog / grid entries already run
  best_result,     \* strategy mode: path of the retained best candidate, or None
  best_file,       \* grid mode: path of the best candidate, or None
  best_size,       \* size of the best candidate (inf / 0 when there is none)
  created_files,   \* grid mode: the recorded candidates
  ret,             \* how the call ended: [kind: "none" | "path" | "raised", path]
  last_trial,      \* history: the latest transform invocation and what it did
  n_ok,            \* history: number of transform invocations that wrote a whole file
  min_ok,          \* history: smallest size written by such an invocation (inf: none)
  ok_in_band,      \* history: such an invocation wrote a size inside the tolerance band
  n_measured,      \* history: number of trials whose candidate the controller measured
  files_to_merge,  \* PDFMerger: the merge queue
  folder,          \* PDFMerger: the files that exist (all in the input folder)
  m_ret,           \* PDFMerger history: the latest call, its argument and what it returned
  n_added,         \* PDFMerger history: successful add_file calls since the last clear_files
  merged,          \* PDFMerger history: the files the latest call merged, in order
  n_calls          \* PDFMerger history: number of method calls made

cvars == <<pc, mode, target_size_mb, fs, i, best_result, best_file, best_size,
           created_files, ret, last_trial, n_ok, min_ok, ok_in_band, n_measured>>

mvars == <<files_to_merge, folder, m_ret, n_added, merged, n_calls>>

vars == <<cvars, mvars>>

NoTrial ==
  [entry |-> 0, res |-> "none", wrote |-> FALSE, size |-> 0, out |-> None,
   measured |-> FALSE, current_size |-> 0]

\* measured / current_size: whether the controller measured a candidate in this
\* trial, and the size it read (0 when it measured nothing)
Trial(k, outcome, out, measured, current_size) ==
  [entry |-> k, res |-> outcome.res, wrote |-> outcome.wrote, size |-> outcome.size,
   out |-> out, measured |-> measured,
   current_size |-> IF measured THEN current_size ELSE 0]

Returned(p) == [kind |-> "path", path |-> p]
Raised == [kind |-> "raised", path |-> None]
NotEnded == [kind |-> "none", path |-> None]

Min(a, b) == IF a <= b THEN a ELSE b

NoPath == [stem |-> 0, ext |-> ""]
NoCall == [op |-> "none", arg |-> NoPath, value |-> FALSE]

\* PDFMerger.__init__: self.files_to_merge = []
MergerStart(files) ==
  /\ files_to_merge = <<>>
  /\ folder = files
  /\ m_ret = NoCall
  /\ n_added = 0
  /\ merged = <<>>
  /\ n_calls = 0

\* The state before a call: the input document exists; a file may already sit
\* at the path the strategy search uses as its scratch path.
Init ==
  /\ MergerStart({})
  /\ pc = "idle"
  /\ mode = "none"
  /\ target_size_mb = 0
  /\ \E input_size \in InputSizes :
       \/ fs = (input_path :> File(input_size, FALSE))
       \/ \E s \in UNION {SizesFor(T) : T \in Targets} :
            fs = (input_path :> File(input_size, FALSE)) @@ (temp_output :> File(s, FALSE))
  /\ i = 0
  /\ best_result = None
  /\ best_file = None
  /\ best_size = 0
  /\ created_files = <<>>
  /\ ret = NotEnded
  /\ last_trial = NoTrial
  /\ n_ok = 0
  /\ min_ok = inf
  /\ ok_in_band = FALSE
  /\ n_measured = 0

\* The history of one more transform invocation.
History(k, outcome, out, measured, current_size) ==
  /\ last_trial' = Trial(k, outcome, out, measured, current_size)
  /\ n_ok' = IF outcome.res = "ok" THEN n_ok + 1 ELSE n_ok
  /\ min_ok' = IF outcome.res = "ok" THEN Min(min_ok, outcome.size) ELSE min_ok
  /\ ok_in_band' = (ok_in_band \/ (outcome.res = "ok" /\ InBand(outcome.size, target_size_mb)))
  /\ n_measured' = IF measured THEN n_measured + 1 ELSE n_measured

---------------------------------------------------------------------------
\* compress_to_target_size

\* a catalog whose lambdas hand the scratch path to their transforms
compress_func_to_scratch(k, fsx, outcome) == Transform(fsx, temp_output, outcome)

\* One catalog entry: every lambda of the catalog hands output_path to its transform.
compress_func(k, fsx, outcome) == Transform(fsx, output_path, outcome)

\* if best_result and best_result.exists(): best_result.unlink()
unlink_best(fsx, best) == IF best # None /\ exists(fsx, best) THEN unlink(fsx, best) ELSE fsx

\* except Exception: if temp_output.exists(): temp_output.unlink()
on_strategy_failure(fsx) == IF exists(fsx, temp_output) THEN unlink(fsx, temp_output) ELSE fsx

\* a promotion that copies the best candidate and leaves it in place
promote_best_copy(fsx, best) == write(fsx, output_path, fsx[best])

\* Use the best result we found: shutil.move(best_result, output_path)
promote_best(fsx, best) == move(fsx, best, output_path)

\* a finalization that gives up when the best candidate is above the target
has_best_under_target(fsx, best) ==
  best # None /\ exists(fsx, best) /\ best_size <= target_size_mb

\* if best_result and best_result.exists()
has_best(fsx, best) == best # None /\ exists(fsx, best)

\* The call up to the loop: the fast path, or the initial loop state.
compress_to_target_size ==
  /\ pc = "idle"
  /\ \E T \in Targets :
       /\ target_size_mb' = T
       /\ mode' = "strategy"
       /\ IF FastPath(get_file_size_mb(fs, input_path), T)
            THEN /\ pc' = "done"
                 /\ ret' = Returned(input_path)
                 /\ best_size' = best_size
            ELSE /\ pc' = "strategy"
                 /\ ret' = ret
                 /\ best_size' = inf
  /\ UNCHANGED <<fs, i, best_result, best_file, created_files,
                 last_trial, n_ok, min_ok, ok_in_band, n_measured>>
  /\ UNCHANGED mvars

\* One iteration of the loop over strategies.
StrategyTrial ==
  /\ pc = "strategy"
  /\ \E outcome \in Outcomes(target_size_mb) :
       LET k == i + 1
           strategy == strategies[k]
           fs1 == compress_func(k, fs, outcome)
           raised == Raises(strategy.kind, outcome)
           measured == ~raised /\ exists(fs1, temp_output)
           current_size == get_file_size_mb(fs1, temp_output)
           accept == measured /\ InBand(current_size, target_size_mb)
           improve == measured /\ ~accept /\ Improves(current_size, best_size)
           new_best == with_suffix(output_path, strategy.best_suffix)
           stop == improve /\ CloseEnough(current_size, target_size_mb)
       IN  /\ fs' = IF raised THEN on_strategy_failure(fs1)
                    ELSE IF accept THEN move(fs1, temp_output, output_path)
                    ELSE IF improve
                      THEN move(unlink_best(fs1, best_result), temp_output, new_best)
                    ELSE IF measured THEN unlink(fs1, temp_output)
                    ELSE fs1
           /\ best_result' = IF improve THEN new_best ELSE best_result
           /\ best_size' = IF improve THEN current_size ELSE best_size
           /\ i' = k
           /\ ret' = IF accept THEN Returned(output_path) ELSE ret
           /\ pc' = IF accept THEN "done"
                    ELSE IF stop \/ k = Len(strategies) THEN "strategy_end"
                    ELSE "strategy"
           /\ History(k, outcome, output_path, measured, current_size)
  /\ UNCHANGED <<mode, target_size_mb, best_file, created_files>>
  /\ UNCHANGED mvars

\* After the loop: promote the best candidate, or raise.
StrategyFinalize ==
  /\ pc = "strategy_end"
  /\ IF has_best(fs, best_result)
       THEN /\ fs' = promote_best(fs, best_result)
            /\ ret' = Returned(output_path)
       ELSE /\ fs' = fs
            /\ ret' = Raised
  /\ pc' = "done"
  /\ UNCHANGED <<mode, target_size_mb, i, best_result, best_file, best_size,
                 created_files, last_trial, n_ok, min_ok, ok_in_band, n_measured>>
  /\ UNCHANGED mvars

---------------------------------------------------------------------------
\* compress_with_multiple_attempts_image_only

\* a transform that saves over the document it read
compress_pdf_images_in_place(fsx, out, outcome) == Transform(fsx, input_path, outcome)

\* compress_pdf_images(input_path, temp_output_path, max_width, quality)
compress_pdf_images(fsx, out, outcome) == Transform(fsx, out, outcome)

\* created_files.sort(key=lambda x: x[1], reverse=True): stable, largest first
RECURSIVE InsertDesc(_, _)
InsertDesc(sorted, c) ==
  IF sorted = <<>> THEN <<c>>
  ELSE IF Head(sorted).size >= c.size THEN <<Head(sorted)>> \o InsertDesc(Tail(sorted), c)
  ELSE <<c>> \o sorted

RECURSIVE sort_created_files(_)
sort_created_files(cs) ==
  IF cs = <<>> THEN <<>>
  ELSE InsertDesc(sort_created_files(SubSeq(cs, 1, Len(cs) - 1)), cs[Len(cs)])

\* for file_path, ... in created_files:
\*     if file_path != best_file and file_path.exists(): file_path.unlink()
RECURSIVE remove_other_files(_, _, _)
remove_other_files(fsx, cs, best) ==
  IF cs = <<>> THEN fsx
  ELSE remove_other_files(
         IF Head(cs).path # best /\ exists(fsx, Head(cs).path)
           THEN unlink(fsx, Head(cs).path) ELSE fsx,
         Tail(cs), best)

\* a failure path that forgets to delete the recorded candidates
remove_all_files_skipped(fsx, cs) == fsx

\* for file_path, ... in created_files: if file_path.exists(): file_path.unlink()
RECURSIVE remove_all_files(_, _)
remove_all_files(fsx, cs) ==
  IF cs = <<>> THEN fsx
  ELSE remove_all_files(
         IF exists(fsx, Head(cs).path) THEN unlink(fsx, Head(cs).path) ELSE fsx,
         Tail(cs))

\* The call up to the loop: the fast path, or the initial loop state.
compress_with_multiple_attempts_image_only ==
  /\ pc = "idle"
  /\ \E T \in Targets :
       /\ target_size_mb' = T
       /\ mode' = "grid"
       /\ IF FastPath(get_file_size_mb(fs, input_path), T)
            THEN /\ pc' = "done"
                 /\ ret' = Returned(input_path)
            ELSE /\ pc' = "grid"
                 /\ ret' = ret
  /\ best_size' = 0
  /\ UNCHANGED <<fs, i, best_result, best_file, created_files,
                 last_trial, n_ok, min_ok, ok_in_band, n_measured>>
  /\ UNCHANGED mvars

\* a loop that stops at a new best candidate within the 2% tolerance of the target
grid_loop_stops_when_close(k, better, current_size) ==
  k = Len(Grid) \/ (better /\ VeryClose(current_size, target_size_mb))

\* for i, (max_width, quality) in enumerate(compression_params, 1): the loop has
\* no break, it ends after the last entry whatever was measured
grid_loop_ends(k, better, current_size) == k = Len(Grid)

\* One iteration of the loop over compression_params.
GridTrial ==
  /\ pc = "grid"
  /\ \E outcome \in Outcomes(target_size_mb) :
       LET k == i + 1
           max_width == Grid[k][1]
           quality == Grid[k][2]
           out == temp_output_path(k, max_width, quality)
           fs1 == compress_pdf_images(fs, out, outcome)
           success == compress_pdf_images_status(outcome)
           recorded == success /\ exists(fs1, out)
           current_size == get_file_size_mb(fs1, out)
           better == recorded /\ GridBetter(current_size, target_size_mb, best_size)
       IN  /\ fs' = fs1
           /\ created_files' =
                IF recorded
                  THEN Append(created_files,
                              [path |-> out, size |-> current_size,
                               max_width |-> max_width, quality |-> quality])
                  ELSE created_files
           /\ best_file' = IF better THEN out ELSE best_file
           /\ best_size' = IF better THEN current_size ELSE best_size
           /\ i' = k
           /\ pc' = IF grid_loop_ends(k, better, current_size) THEN "grid_end" ELSE "grid"
           /\ History(k, outcome, out, recorded, current_size)
  /\ UNCHANGED <<mode, target_size_mb, best_result, ret>>
  /\ UNCHANGED mvars

\* After the loop: sort, keep the best candidate and delete the others, or raise.
GridFinalize ==
  /\ pc = "grid_end"
  /\ LET sorted == sort_created_files(created_files)
     IN  /\ created_files' = sorted
         /\ IF best_file # None
              THEN /\ fs' = remove_other_files(move(fs, best_file, final_output_path),
                                               sorted, best_file)
                   /\ ret' = Returned(final_output_path)
              ELSE /\ fs' = remove_all_files(fs, sorted)
                   /\ ret' = Raised
  /\ pc' = "done"
  /\ UNCHANGED <<mode, target_size_mb, i, best_result, best_file, best_size,
                 last_trial, n_ok, min_ok, ok_in_band, n_measured>>
  /\ UNCHANGED mvars

---------------------------------------------------------------------------
Next ==
  \/ compress_to_target_size
  \/ StrategyTrial
  \/ StrategyFinalize
  \/ compress_with_multiple_attempts_image_only
  \/ GridTrial
  \/ GridFinalize

Spec == Init /\ [][Next]_vars

---------------------------------------------------------------------------
\* PDFMerger (src/main.py)

\* A path of the merger is the pair os.path.splitext gives: the stem (folder
\* and name, here a number that orders like the string) and the extension.
Stems == {1, 2}
Exts == {".pdf", ".PDF", ".jpg", ".jpeg", ".txt", ""}
Universe == [stem : Stems, ext : Exts]

\* str.lower on an extension
lower(ext) ==
  CASE ext = ".PDF" -> ".pdf"
    [] ext = ".JPG" -> ".jpg"
    [] OTHER -> ext

supported_image_formats == {".jpg", ".jpeg", ".png"}
supported_pdf_format == {".pdf"}

\* a validation that compares the extension as it is spelled
is_supported_case_sensitive(file_path) ==
  file_path.ext \in supported_image_formats \cup supported_pdf_format

\* file_extension = os.path.splitext(file_path)[1].lower()
\* file_extension in self.supported_image_formats / self.supported_pdf_format
is_supported(file_path) ==
  lower(file_path.ext) \in supported_image_formats \cup supported_pdf_format

\* the place of an extension among the others in string order (code points)
ExtRank(ext) ==
  CASE ext = "" -> 0
    [] ext = ".JPG" -> 1
    [] ext = ".PDF" -> 2
    [] ext = ".jpeg" -> 3
    [] ext = ".jpg" -> 4
    [] ext = ".pdf" -> 5
    [] ext = ".png" -> 6
    [] ext = ".txt" -> 7

\* a < b on path strings
PathLess(a, b) ==
  a.stem < b.stem \/ (a.stem = b.stem /\ ExtRank(a.ext) < ExtRank(b.ext))

\* get_file_count
get_file_count == Len(files_to_merge)

\* every order in which glob may list the files of a set
Listings(S) ==
  {l \in [1 .. Cardinality(S) -> S] : \A a, b \in 1 .. Cardinality(S) : a # b => l[a] # l[b]}

\* glob.glob(os.path.join(folder_path, "*.*")): the names that hold a dot
glob(files) == {f \in files : f.ext # ""}

RECURSIVE filter_supported(_)
\* for file_path in all_input_files: if file_ext in supported_extensions: append
filter_supported(l) ==
  IF l = <<>> THEN <<>>
  ELSE IF lower(Head(l).ext) \in supported_image_formats \cup supported_pdf_format
    THEN <<Head(l)>> \o filter_supported(Tail(l))
  ELSE filter_supported(Tail(l))

RECURSIVE InsertAsc(_, _)
InsertAsc(sorted, f) ==
  IF sorted = <<>> THEN <<f>>
  ELSE IF PathLess(f, Head(sorted)) THEN <<f>> \o sorted
  ELSE <<Head(sorted)>> \o InsertAsc(Tail(sorted), f)

\* a process_folder that keeps the order in which glob listed the files
sort_skipped(l) == l

RECURSIVE sort_files(_)
\* all_files.sort()
sort_files(l) ==
  IF l = <<>> THEN <<>>
  ELSE InsertAsc(sort_files(SubSeq(l, 1, Len(l) - 1)), l[Len(l)])

\* add_file applied to a queue: the new queue (validation, then append)
add_to(queue, file_path) ==
  IF file_path \in folder /\ is_supported(file_path)
    THEN Append(queue, file_path)
    ELSE queue

RECURSIVE add_all(_, _)
\* for file_path in all_files: self.add_file(file_path)
add_all(queue, l) ==
  IF l = <<>> THEN queue ELSE add_all(add_to(queue, Head(l)), Tail(l))

Called(op, arg, value) ==
  /\ n_calls < MaxCalls
  /\ n_calls' = n_calls + 1
  /\ m_ret' = [op |-> op, arg |-> arg, value |-> value]

add_file ==
  /\ \E file_path \in Universe :
       LET added == file_path \in folder /\ is_supported(file_path)
       IN  /\ files_to_merge' = add_to(files_to_merge, file_path)
           /\ n_added' = n_added + (IF added THEN 1 ELSE 0)
           /\ Called("add_file", file_path, added)
  /\ merged' = <<>>
  /\ UNCHANGED folder
  /\ UNCHANGED cvars

clear_files ==
  /\ files_to_merge' = <<>>
  /\ n_added' = 0
  /\ Called("clear_files", NoPath, FALSE)
  /\ merged' = <<>>
  /\ UNCHANGED folder
  /\ UNCHANGED cvars

\* merge_files on a queue: what it returns.  Each file is handed to
\* _add_image_to_pdf / _add_pdf_to_pdf in queue order; these return False on
\* their own failures and successful_files counts the others;
\* pdf_canvas.save() may raise.
merge_result(queue, successful_files, save_raises) ==
  IF queue = <<>> THEN FALSE
  ELSE IF save_raises THEN FALSE
  ELSE successful_files > 0

merge_files ==
  /\ \E successful_files \in 0 .. Len(files_to_merge), save_raises \in BOOLEAN :
       Called("merge_files", NoPath,
              merge_result(files_to_merge, successful_files, save_raises))
  /\ merged' = files_to_merge
  /\ UNCHANGED <<files_to_merge, folder, n_added>>
  /\ UNCHANGED cvars

process_folder ==
  /\ \E listing \in Listings(glob(folder)) :
       LET all_files == filter_supported(listing)
           sorted == sort_files(all_files)
           queue == add_all(<<>>, sorted)
       IN  IF all_files = <<>>
             THEN /\ Called("process_folder", NoPath, FALSE)
                  /\ merged' = <<>>
                  /\ UNCHANGED <<files_to_merge, n_added>>
             ELSE /\ files_to_merge' = queue
                  /\ n_added' = Cardinality({k \in 1 .. Len(sorted) :
                                   sorted[k] \in folder /\ is_supported(sorted[k])})
                  /\ merged' = queue
                  /\ \E successful_files \in 0 .. Len(queue), save_raises \in BOOLEAN :
                       Called("process_folder", NoPath,
                              merge_result(queue, successful_files, save_raises))
  /\ UNCHANGED folder
  /\ UNCHANGED cvars

\* A PDFMerger over a folder of at most MaxFolder files; the compressor is idle.
InitMerger ==
  /\ \E files \in SUBSET Universe :
       Cardinality(files) <= MaxFolder /\ MergerStart(files)
  /\ pc = "idle"
  /\ mode = "none"
  /\ target_size_mb = 0
  /\ fs = (input_path :> File(22, FALSE))
  /\ i = 0
  /\ best_result = None
  /\ best_file = None
  /\ best_size = 0
  /\ created_files = <<>>
  /\ ret = NotEnded
  /\ last_trial = NoTrial
  /\ n_ok = 0
  /\ min_ok = inf
  /\ ok_in_band = FALSE
  /\ n_measured = 0

NextMerger ==
  \/ add_file
  \/ clear_files
  \/ merge_files
  \/ process_folder

SpecMerger == InitMerger /\ [][NextMerger]_vars

---------------------------------------------------------------------------
\* Properties

input_size == get_file_size_mb(fs, input_path)

\* the paths of the retained best candidates of the strategy search
BestPaths == {with_suffix(output_path, strategies[k].best_suffix) : k \in 1 .. Len(strategies)}

\* the recorded grid candidates whose size does not exceed the target
UnderTarget == {k \in 1 .. Len(created_files) : created_files[k].size <= target_size_mb}

\* C1: in both search modes, when the measured input size is <= the target the
\* call returns the input path itself, invokes no transform and creates no
\* file (the step that starts the call ends it and leaves the file system as
\* it was).
C1_FastPathNoOp ==
  [][(mode' # "none" /\ get_file_size_mb(fs', input_path) <= target_size_mb')
       => /\ pc' = "done"
          /\ ret' = Returned(input_path)
          /\ i' = 0
          /\ last_trial' = NoTrial
          /\ fs' = fs]_vars

C1_Witness ==
  /\ pc = "done"
  /\ mode = "grid"
  /\ input_size = target_size_mb
  /\ ret = Returned(input_path)
  /\ exists(fs, temp_output)

\* C2: strategy mode, early accept: as soon as a catalog entry yields a size
\* inside the tolerance band [target - 5%, target], the search has stopped at
\* that entry (no later entry runs) and that entry's candidate is the final
\* output.
C2_EarlyAcceptAtFirstInBand ==
  (mode = "strategy" /\ last_trial.res = "ok" /\ InBand(last_trial.size, target_size_mb))
    => /\ pc = "done"
       /\ ret = Returned(output_path)
       /\ exists(fs, output_path)
       /\ fs[output_path] = File(last_trial.size, FALSE)

\* C3: strategy mode, best effort: when the call has ended, no entry yielded a
\* size inside the tolerance band and several entries succeeded, the call
\* returned the final output and its size is the minimum size achieved among
\* the successful trials.
C3_BestEffortIsMinimum ==
  (mode = "strategy" /\ pc = "done" /\ n_ok >= 2 /\ ~ok_in_band)
    => /\ ret = Returned(output_path)
       /\ exists(fs, output_path)
       /\ get_file_size_mb(fs, output_path) = min_ok

\* C4: grid mode, selection: when the grid search returns an output, the size
\* of the output is the maximum size among the recorded (successful)
\* candidates whose size is <= target.
C4_GridSelectsLargestUnderTarget ==
  (mode = "grid" /\ pc = "done" /\ ret = Returned(final_output_path))
    => /\ exists(fs, final_output_path)
       /\ \E k \in UnderTarget :
            get_file_size_mb(fs, final_output_path) = created_files[k].size
       /\ \A k \in UnderTarget :
            get_file_size_mb(fs, final_output_path) >= created_files[k].size

C4_Witness ==
  /\ mode = "grid"
  /\ pc = "done"
  /\ ret = Returned(final_output_path)
  /\ Len(created_files) = 3
  /\ Cardinality(UnderTarget) = 2
  /\ \E k \in UnderTarget : created_files[k].size < get_file_size_mb(fs, final_output_path)

\* C5: strategy mode, cleanup: after a call that ran at least one transform,
\* whether it returned or raised, at most one file other than the input is
\* left, and neither the scratch (.tmp.pdf) file nor any retained
\* best-candidate (.best_*.pdf) file exists.
C5_StrategyCleanup ==
  (mode = "strategy" /\ pc = "done" /\ i >= 1)
    => /\ Cardinality((DOMAIN fs) \ {input_path}) <= 1
       /\ ~exists(fs, temp_output)
       /\ \A b \in BestPaths : ~exists(fs, b)

C5_Witness ==
  /\ mode = "strategy"
  /\ pc = "done"
  /\ i = Len(strategies)
  /\ best_result # None
  /\ ret = Returned(output_path)
  /\ DOMAIN fs = {input_path, output_path}

\* C6: grid mode, cleanup: after a call that ran the grid, whether it returned
\* or raised, every file written by a trial is gone except the one moved to
\* the final output path: the call leaves exactly the final output on success
\* and nothing on failure.
C6_GridCleanup ==
  (mode = "grid" /\ pc = "done" /\ i >= 1)
    => (DOMAIN fs) \ {input_path, temp_output} =
         IF ret = Returned(final_output_path) THEN {final_output_path} ELSE {}

\* C7: in both modes a failed transform never aborts the search: after a
\* failed trial that is not the last entry the loop is still running, and the
\* partial artifact the failed trial left at its output path has been deleted.
C7_FailureAbsorbedAndCleaned ==
  (last_trial.res = "fail")
    => /\ (last_trial.entry < (IF mode = "grid" THEN Len(Grid) ELSE Len(strategies))
             => pc \in {"strategy", "grid"})
       /\ ~(exists(fs, last_trial.out) /\ fs[last_trial.out].partial)

\* C8: grid mode has no best-effort fallback: when no recorded candidate has
\* size <= target (also when every trial failed), the call raises, no file
\* exists at the final output path and every recorded candidate is deleted.
C8_GridNoFallback ==
  (mode = "grid" /\ pc = "done" /\ i >= 1 /\ UnderTarget = {})
    => /\ ret = Raised
       /\ ~exists(fs, final_output_path)
       /\ \A k \in 1 .. Len(created_files) : ~exists(fs, created_files[k].path)

C8_Witness ==
  /\ mode = "grid"
  /\ pc = "done"
  /\ ret = Raised
  /\ UnderTarget = {}
  /\ Len(created_files) = 2

\* C9: strategy mode, total failure: when the call has ended and no trial's
\* artifact was ever measured, the call raised and no file exists at the
\* final output path.
C9_TotalFailureLeavesNoOutput ==
  (mode = "strategy" /\ pc = "done" /\ i >= 1 /\ n_measured = 0)
    => /\ ret = Raised
       /\ ~exists(fs, output_path)

\* C10: in either search the file at the final output path only ever appears
\* or changes by a move of a fully written candidate from another path: no
\* transform writes to the final output path.
C10_FinalOnlyByMove ==
  [][(exists(fs', output_path)
        /\ (~exists(fs, output_path) \/ fs'[output_path] # fs[output_path]))
       => \E src \in (DOMAIN fs) \ {output_path} :
            /\ ~fs[src].partial
            /\ fs'[output_path] = fs[src]
            /\ ~exists(fs', src)]_vars

\* C11: strategy mode, result: when the call has ended and some executed trial
\* produced a candidate of size <= target + tolerance (5% of the target), the
\* call returned the final output and its size is <= target + tolerance;
\* when trials produced candidates but none that small, the call returned the
\* smallest candidate achieved across all trials.
C11_ResultWithinSlackOrSmallest ==
  (mode = "strategy" /\ pc = "done" /\ n_ok >= 1)
    => /\ ret = Returned(output_path)
       /\ exists(fs, output_path)
       /\ IF 20 * min_ok <= 21 * target_size_mb
            THEN 20 * get_file_size_mb(fs, output_path) <= 21 * target_size_mb
            ELSE get_file_size_mb(fs, output_path) = min_ok

\* C12: grid mode is exhaustive: once the input is larger than the target,
\* every step of the loop invokes the transform for the next entry of the
\* grid, on that entry's own candidate path, and the loop goes on to the
\* following entry whatever was measured (also for a candidate within 2% of
\* the target); the loop is left only after the last entry.
C12_GridExhaustive ==
  [][/\ (pc = "idle" /\ mode' = "grid"
           /\ get_file_size_mb(fs, input_path) > target_size_mb')
          => (pc' = "grid" /\ i' = 0)
     /\ (pc = "grid")
          => /\ i' = i + 1
             /\ last_trial'.entry = i + 1
             /\ last_trial'.out = temp_output_path(i + 1, Grid[i + 1][1], Grid[i + 1][2])
             /\ pc' = IF i + 1 < Len(Grid) THEN "grid" ELSE "grid_end"
     /\ (pc = "grid_end") => (i = Len(Grid) /\ i' = i /\ pc' = "done")]_vars

C12_Witness ==
  /\ mode = "grid"
  /\ pc = "done"
  /\ i = Len(Grid)
  /\ \E k \in UnderTarget :
       /\ created_files[k].path.attempt = 1
       /\ VeryClose(created_files[k].size, target_size_mb)
  /\ Len(created_files) = Len(Grid)

\* C13: strategy mode, finalization: when the loop has ended without an
\* in-band accept and a best candidate exists, the finalization moves it to
\* the final output path and the call returns that path without raising,
\* whether or not its size meets the target.
C13_FinalizePromotesBest ==
  [][(pc = "strategy_end" /\ best_result # None)
       => /\ pc' = "done"
          /\ ret' = Returned(output_path)
          /\ exists(fs, best_result)
          /\ exists(fs', output_path)
          /\ fs'[output_path] = fs[best_result]
          /\ get_file_size_mb(fs', output_path) = best_size
          /\ ~exists(fs', best_result)]_vars

C13_Witness ==
  /\ mode = "strategy"
  /\ pc = "done"
  /\ best_result # None
  /\ ret = Returned(output_path)
  /\ exists(fs, output_path)
  /\ get_file_size_mb(fs, output_path) = best_size
  /\ best_size > target_size_mb
  /\ ~CloseEnough(best_size, target_size_mb)

\* C14: grid mode, tie-break: when the grid search returns an output, the
\* candidate it chose is, among the recorded candidates of the maximum size
\* <= target, the one met first in grid order: no recorded candidate under
\* the target is larger, and none of the same size comes from an earlier
\* entry; it is the file moved to the final output path.
C14_GridTieBreakFirst ==
  (mode = "grid" /\ pc = "done" /\ ret = Returned(final_output_path))
    => /\ best_file # None
       /\ ~exists(fs, best_file)
       /\ get_file_size_mb(fs, final_output_path) = best_size
       /\ \E k \in UnderTarget :
            created_files[k].path = best_file /\ created_files[k].size = best_size
       /\ \A k \in UnderTarget :
            \/ created_files[k].size < best_size
            \/ /\ created_files[k].size = best_size
               /\ created_files[k].path.attempt >= best_file.attempt

C14_Witness ==
  /\ mode = "grid"
  /\ pc = "done"
  /\ ret = Returned(final_output_path)
  /\ best_file.attempt = 1
  /\ Cardinality({k \in UnderTarget : created_files[k].size = best_size}) = 3

\* C15: the input document is never changed by a search: in both modes every
\* step (trial, promotion, cleanup, on every exit path) leaves the file at
\* the input path in place with its content.
C15_InputUnchanged ==
  [][exists(fs', input_path) /\ fs'[input_path] = fs[input_path]]_vars

C15_Witness ==
  /\ mode = "grid"
  /\ pc = "done"
  /\ ret = Raised
  /\ Len(created_files) = Len(Grid)
  /\ exists(fs, input_path)

\* C18: strategy mode, close-enough stop: when a trial's measured size is
\* outside the tolerance band, smaller than the current best and at most 10%
\* above the target, the candidate is retained as the best and the loop is
\* left at once; the finalization then runs no further entry and promotes
\* that candidate.
C18_CloseEnoughStops ==
  [][/\ (pc = "strategy" /\ last_trial'.measured
           /\ ~(last_trial'.current_size <= target_size_mb
                  /\ 20 * last_trial'.current_size >= 19 * target_size_mb)
           /\ last_trial'.current_size < best_size
           /\ 10 * last_trial'.current_size <= 11 * target_size_mb)
          => /\ pc' = "strategy_end"
             /\ best_size' = last_trial'.current_size
             /\ best_result' # None
             /\ exists(fs', best_result')
             /\ fs'[best_result'] = File(best_size', FALSE)
     /\ (pc = "strategy_end" /\ best_result # None)
          => /\ pc' = "done"
             /\ i' = i
             /\ last_trial' = last_trial
             /\ ret' = Returned(output_path)
             /\ fs'[output_path] = fs[best_result]]_vars

C18_Witness ==
  /\ mode = "strategy"
  /\ pc = "done"
  /\ i = 1
  /\ last_trial.measured
  /\ best_size = last_trial.current_size
  /\ best_size > target_size_mb
  /\ ret = Returned(output_path)
  /\ get_file_size_mb(fs, output_path) = best_size

\* the retained best-candidate files that exist
BestFiles == {b \in BestPaths : exists(fs, b)}

C20_NothingMeasuredAllRunThenRaise ==
  [][/\ (pc = "strategy" /\ ~exists(fs, temp_output) /\ n_measured = 0)
          => /\ i' = i + 1
             /\ last_trial'.entry = i + 1
             /\ last_trial'.out = output_path
             /\ ~last_trial'.measured
             /\ n_measured' = 0
             /\ ~exists(fs', temp_output)
             /\ best_result' = None
             /\ pc' = IF i + 1 < Len(strategies) THEN "strategy" ELSE "strategy_end"
     /\ (pc = "strategy_end" /\ n_measured = 0)
          => (i = Len(strategies) /\ pc' = "done" /\ ret' = Raised)]_vars

C20_Witness ==
  /\ mode = "strategy"
  /\ pc = "done"
  /\ input_size > target_size_mb
  /\ i = 15
  /\ n_ok = 15
  /\ n_measured = 0
  /\ ret = Raised

---------------------------------------------------------------------------
\* Properties of the PDFMerger

\* the files of the folder that process_folder is to merge
SupportedInFolder ==
  {f \in folder : lower(f.ext) \in {".jpg", ".jpeg", ".png", ".pdf"}}

\* C16: add_file returns True and appends the path exactly when the file
\* exists and its lower-cased extension is .jpg, .jpeg, .png or .pdf, and
\* otherwise returns False and leaves the queue as it was; get_file_count is
\* the number of successful add_file calls since the latest clear_files; and
\* merge_files leaves the queue as it was.
C16_QueueInvariant ==
  [][ /\ (m_ret'.op = "add_file" =>
            LET file_path == m_ret'.arg
                valid == /\ file_path \in folder
                         /\ lower(file_path.ext) \in {".jpg", ".jpeg", ".png", ".pdf"}
            IN  /\ m_ret'.value = valid
                /\ files_to_merge' = IF valid THEN Append(files_to_merge, file_path)
                                              ELSE files_to_merge)
      /\ Len(files_to_merge') = n_added'
      /\ (m_ret'.op = "merge_files" => files_to_merge' = files_to_merge)
    ]_vars

\* an upper-case .PDF was accepted as the second file of the queue
C16_Witness ==
  /\ m_ret.op = "add_file"
  /\ m_ret.value
  /\ m_ret.arg.ext = ".PDF"
  /\ get_file_count = 2

\* C17: after process_folder on a folder that holds a supported file, the
\* queue holds exactly the supported files of the folder, each once, in
\* ascending order of their paths, whatever was queued before, and the merge
\* processed them in that order; on a folder without a supported file it
\* returns False and merges nothing.
C17_FolderInAlphabeticalOrder ==
  [][ m_ret'.op = "process_folder" =>
        IF SupportedInFolder = {}
          THEN m_ret'.value = FALSE /\ merged' = <<>>
          ELSE /\ Len(files_to_merge') = Cardinality(SupportedInFolder)
               /\ {files_to_merge'[k] : k \in 1 .. Len(files_to_merge')} = SupportedInFolder
               /\ \A a, b \in 1 .. Len(files_to_merge') :
                    a < b => PathLess(files_to_merge'[a], files_to_merge'[b])
               /\ merged' = files_to_merge'
    ]_vars

\* process_folder, called third, queued and merged two files of one stem
C17_Witness ==
  /\ m_ret.op = "process_folder"
  /\ n_calls = 3
  /\ Len(merged) = 2
  /\ merged[1].stem = merged[2].stem
  /\ merged[1].ext = ".PDF"

====
